---- MODULE Spec2Model ----
(***************************************************************************)
(* The step workflow of the photo-verification server: the request         *)
(* handlers of the routes file (POST /api/jobs, POST /api/uploads,         *)
(* POST /api/reviews, DELETE /api/jobs/:id, DELETE /api/steps/:id) over    *)
(* the tables of the storage layer (jobs, steps, uploads, reviews).        *)
(* One action is one whole request: every storage call the handler makes   *)
(* and the response it sends.                                              *)
(***************************************************************************)
EXTENDS Integers, Sequences, FiniteSets, TLC

(* ---- bounds of the model ---- *)
MaxJobs == 1
MaxSteps == 3
MaxUploads == 2
MaxReviews == 2

JobIds == 1..MaxJobs
StepIds == 1..(MaxJobs * MaxSteps)
UploadIds == 1..MaxUploads
ReviewIds == 1..MaxReviews

(* ---- users table: ids and the role column ---- *)
Users == {"m1", "m2", "w1", "w2", "v1"}

Role(u) ==
  IF u \in {"m1", "m2"} THEN "manager"
  ELSE IF u \in {"w1", "w2"} THEN "worker"
  ELSE "manager_view_only"

(* the users that send requests in the workflow specification *)
Callers == {"m1", "w1"}

StepStatuses == {"pending", "awaiting_upload", "awaiting_review", "approved", "rejected"}
ActiveStatuses == {"awaiting_upload", "awaiting_review", "rejected"}

(* a field the request body does not carry *)
Absent == "absent"

VARIABLES
  jobs,       \* jobs table:    id -> [managerId, workerId, status]
  steps,      \* steps table:   id -> [jobId, order, status]
  uploads,    \* uploads table: id -> [stepId, workerId]
  reviews,    \* reviews table: id -> [uploadId, managerId, status, feedback]
  jobSeq,     \* serial of jobs.id (the last id given out)
  stepSeq,    \* serial of steps.id
  uploadSeq,  \* serial of uploads.id
  reviewSeq,  \* serial of reviews.id
  last,       \* the last request and its response: the caller, the status
              \* code, and the request fields the handler had read by then
  resub,      \* progress of an upload, reject, upload sequence on one step
  calls,      \* the POST /api/reviews requests in flight, each at one of the
              \* handler's awaits, with the values it has read so far
  shown,      \* the job status the manager's dashboard has computed from the
              \* steps of a job, and how many times it has computed it
  del         \* the storage delete in flight: the statement it is at and the
              \* rows it has selected and still has to go through

vars == <<jobs, steps, uploads, reviews, jobSeq, stepSeq, uploadSeq, reviewSeq, last, resub,
          calls, shown, del>>
tables == <<jobs, steps, uploads, reviews>>
serials == <<jobSeq, stepSeq, uploadSeq, reviewSeq>>

(* ---- table helpers ---- *)
Empty == [x \in {} |-> 0]

Insert(t, id, row) == [x \in DOMAIN t \cup {id} |-> IF x = id THEN row ELSE t[x]]

Remove(t, ids) == [x \in DOMAIN t \ ids |-> t[x]]

(* ---- storage layer ---- *)
(* db.update(steps).set({status}).where(eq(steps.id, id)): no row, no change *)
updateStepStatus(S, id, status) ==
  [x \in DOMAIN S |-> IF x = id THEN [S[x] EXCEPT !.status = status] ELSE S[x]]

updateJobStatus(J, id, status) ==
  [x \in DOMAIN J |-> IF x = id THEN [J[x] EXCEPT !.status = status] ELSE J[x]]

getStepsByJob(S, jobId) == {s \in DOMAIN S : S[s].jobId = jobId}

getUploadsByStep(U, stepId) == {u \in DOMAIN U : U[u].stepId = stepId}

getReviewsByUpload(R, uploadId) == {r \in DOMAIN R : R[r].uploadId = uploadId}

(* the reviews attached to the uploads of a step *)
ReviewsOfStep(U, R, stepId) ==
  {r \in DOMAIN R : R[r].uploadId \in getUploadsByStep(U, stepId)}

(* step.uploads[step.uploads.length - 1]: the upload inserted last *)
latestUpload(U, stepId) ==
  CHOOSE u \in getUploadsByStep(U, stepId) :
    \A v \in getUploadsByStep(U, stepId) : v <= u

(* ---- responses ---- *)
NoCall ==
  [op |-> "none", code |-> 0, caller |-> "", id |-> 0, decision |-> "",
   feedback |-> "", pre |-> "none", drafts |-> 0]

Response(op, code, caller, id, decision, feedback, pre, drafts) ==
  [op |-> op, code |-> code, caller |-> caller, id |-> id, decision |-> decision,
   feedback |-> feedback, pre |-> pre, drafts |-> drafts]

NoResub == [step |-> 0, stage |-> 0]

(* the dashboard has computed no status yet *)
NotShown == [jobId |-> 0, status |-> "", renders |-> 0]

(* the two request slots of the interleaved review handler *)
Slots == {1, 2}

NoBody == [uploadId |-> 0, status |-> "", feedback |-> ""]

NoStep == [jobId |-> 0, order |-> 0, status |-> ""]

(* a slot with no request: pc is the await the handler is at, code the status
   code it answered with, activated the step it set to awaiting_upload,
   completed whether it set the job to completed *)
IdleCall ==
  [pc |-> "idle", caller |-> "", body |-> NoBody, stepId |-> 0, step |-> NoStep,
   allSteps |-> << >>, code |-> 0, activated |-> 0, completed |-> FALSE]

NoTables == [jobs |-> Empty, steps |-> Empty, uploads |-> Empty, reviews |-> Empty]

(* no delete in flight: pc is the statement the delete is at, jobSteps the
   selected steps the loop has not reached, step the loop's current step,
   stepUploads the selected uploads the inner loop has not reached, before
   the tables as they were when the delete was called *)
NoDelete ==
  [pc |-> "idle", op |-> "", caller |-> "", id |-> 0, jobSteps |-> {}, step |-> 0,
   stepUploads |-> {}, before |-> NoTables]

Init ==
  /\ jobs = Empty
  /\ steps = Empty
  /\ uploads = Empty
  /\ reviews = Empty
  /\ jobSeq = 0
  /\ stepSeq = 0
  /\ uploadSeq = 0
  /\ reviewSeq = 0
  /\ last = NoCall
  /\ resub = NoResub
  /\ calls = [i \in Slots |-> IdleCall]
  /\ shown = NotShown
  /\ del = NoDelete

(* ---- POST /api/jobs ---- *)
(* the handler is createJobUpTo; cap bounds the serial of jobs.id, and
   CreateJob is the handler under the bound MaxJobs *)
(* a step draft is TRUE when it passes the deadline check of the loop
   (not (step.hasDeadline && !step.deadline)) *)
DraftLists == UNION {[1..n -> BOOLEAN] : n \in 0..MaxSteps}

GoodBody(d) == [title |-> "roof", workerId |-> "w1", jobDeadlineOk |-> TRUE, steps |-> d]

JobBodies ==
  {GoodBody(d) : d \in DraftLists}
    \cup {[GoodBody(<<TRUE>>) EXCEPT !.title = ""],
          [GoodBody(<<TRUE>>) EXCEPT !.workerId = ""],
          [GoodBody(<<TRUE>>) EXCEPT !.jobDeadlineOk = FALSE]}

(* the check without its steps.length === 0 disjunct *)
invalidJobBodyNoEmptyCheck(body) ==
  body.title = "" \/ body.workerId = "" \/ ~body.jobDeadlineOk

(* !title || !workerId || !steps || steps.length === 0, and the job
   deadline check after it *)
invalidJobBody(body) ==
  body.title = "" \/ body.workerId = "" \/ Len(body.steps) = 0 \/ ~body.jobDeadlineOk

(* the index of the first draft that fails the deadline check, 0 when none *)
FirstBad(d) ==
  IF \E i \in 1..Len(d) : ~d[i]
  THEN CHOOSE i \in 1..Len(d) : ~d[i] /\ \A k \in 1..(i - 1) : d[k]
  ELSE 0

(* every step opened for upload at creation *)
InitialStepStatusAllOpen(i) == "awaiting_upload"

(* the status createStep is given for the draft at index i (i = 1 is the
   loop's i === 0) *)
InitialStepStatus(i) == IF i = 1 THEN "awaiting_upload" ELSE "pending"

(* the rows the loop inserts before it returns: drafts 1..n of job j *)
NewSteps(j, n) ==
  [x \in (stepSeq + 1)..(stepSeq + n) |->
    [jobId |-> j, order |-> x - stepSeq, status |-> InitialStepStatus(x - stepSeq)]]

createJobUpTo(cap, u, body) ==
  LET d == body.steps
      bad == FirstBad(d)
      n == IF bad = 0 THEN Len(d) ELSE bad - 1
      j == jobSeq + 1
      added == NewSteps(j, n)
  IN
  IF Role(u) # "manager" THEN
    /\ last' = Response("createJob", 403, u, 0, "", "", "none", 0)
    /\ resub' = NoResub
    /\ UNCHANGED <<tables, serials, calls, shown, del>>
  ELSE IF invalidJobBody(body) THEN
    /\ last' = Response("createJob", 400, u, 0, "", "", "none", Len(d))
    /\ resub' = NoResub
    /\ UNCHANGED <<tables, serials, calls, shown, del>>
  ELSE
    /\ jobSeq < cap
    /\ jobs' = Insert(jobs, j,
                 [managerId |-> u, workerId |-> body.workerId, status |-> "in_progress"])
    /\ steps' = [x \in DOMAIN steps \cup DOMAIN added |->
                   IF x \in DOMAIN added THEN added[x] ELSE steps[x]]
    /\ jobSeq' = j
    /\ stepSeq' = stepSeq + n
    /\ last' = Response("createJob", IF bad = 0 THEN 200 ELSE 400, u, j, "", "", "none", Len(d))
    /\ resub' = NoResub
    /\ UNCHANGED <<uploads, reviews, uploadSeq, reviewSeq, calls, shown, del>>

CreateJob(u, body) == createJobUpTo(MaxJobs, u, body)

(* ---- POST /api/steps ---- *)
(* insertStepSchema: jobId and order are required columns, status has the
   column default "pending"; a body without order fails safeParse (order 0
   stands for the body that carries no order) *)
StepBodies ==
  {[jobId |-> j, order |-> MaxSteps + 1, status |-> Absent] : j \in JobIds}
    \cup {[jobId |-> 1, order |-> 0, status |-> Absent]}

validStep(body) == body.order # 0

(* the role test of the read routes: user.role === "manager" ||
   user.role === "manager_view_only" *)
isManagerOrViewOnly(u) == Role(u) \in {"manager", "manager_view_only"}

(* the role test of the handler: user.role === "manager" *)
isManager(u) == Role(u) = "manager"

CreateStep(u, body) ==
  LET fail(code) ==
        /\ last' = Response("createStep", code, u, 0, "", "", "none", 0)
        /\ UNCHANGED <<tables, serials, calls, shown, del>>
  IN
  /\ resub' = NoResub
  /\ IF ~isManager(u) THEN fail(403)
     ELSE IF ~validStep(body) THEN fail(400)
     ELSE
       /\ stepSeq < MaxJobs * MaxSteps
       /\ steps' = Insert(steps, stepSeq + 1,
                     [jobId |-> body.jobId, order |-> body.order,
                      status |-> IF body.status = Absent THEN "pending" ELSE body.status])
       /\ stepSeq' = stepSeq + 1
       /\ last' = Response("createStep", 200, u, stepSeq + 1, "", "", "none", 0)
       /\ UNCHANGED <<jobs, uploads, reviews, jobSeq, uploadSeq, reviewSeq, calls, shown, del>>

(* ---- POST /api/uploads ---- *)
(* the status the handler writes after createUpload *)
StatusAfterUpload == "awaiting_review"

(* where the upload leaves the upload, reject, upload sequence *)
ResubAfterUpload(stepId, pre) ==
  IF resub.stage = 2 /\ resub.step = stepId
  THEN [step |-> stepId, stage |-> 3]
  ELSE IF pre = "awaiting_upload" /\ getUploadsByStep(uploads, stepId) = {}
  THEN [step |-> stepId, stage |-> 1]
  ELSE NoResub

(* the handler is submitUploadUpTo; cap bounds the serial of uploads.id, and
   SubmitUpload is the handler under the bound MaxUploads *)
submitUploadUpTo(cap, u, stepId, hasFile) ==
  LET pre == IF stepId \in DOMAIN steps THEN steps[stepId].status ELSE "none"
      fail(code, id) ==
        /\ last' = Response("submitUpload", code, u, id, "", "", "none", 0)
        /\ resub' = NoResub
        /\ UNCHANGED <<tables, serials, calls, shown, del>>
  IN
  IF Role(u) # "worker" THEN fail(403, 0)
  ELSE IF ~hasFile THEN fail(400, 0)
  ELSE IF stepId = 0 THEN fail(400, 0)
  ELSE IF stepId \notin DOMAIN steps THEN fail(404, stepId)
  ELSE
    /\ uploadSeq < cap
    /\ uploads' = Insert(uploads, uploadSeq + 1, [stepId |-> stepId, workerId |-> u])
    /\ uploadSeq' = uploadSeq + 1
    /\ steps' = updateStepStatus(steps, stepId, StatusAfterUpload)
    /\ last' = Response("submitUpload", 200, u, stepId, "", "", pre, 0)
    /\ resub' = ResubAfterUpload(stepId, pre)
    /\ UNCHANGED <<jobs, reviews, jobSeq, stepSeq, reviewSeq, calls, shown, del>>

SubmitUpload(u, stepId, hasFile) == submitUploadUpTo(MaxUploads, u, stepId, hasFile)

(* ---- POST /api/reviews ---- *)
ReviewBodies ==
  {[uploadId |-> p, status |-> "approved", feedback |-> ""] : p \in UploadIds}
    \cup {[uploadId |-> p, status |-> "rejected", feedback |-> f] :
            p \in UploadIds, f \in {"", "blurry"}}
    \cup {[uploadId |-> 1, status |-> Absent, feedback |-> ""]}

(* insertReviewSchema.safeParse: uploadId and status are required columns,
   feedback is a nullable text column *)
validReview(body) == body.status # Absent

(* the review's own status written to the step, as the older handler did
   (updateStepStatus(upload.stepId, validation.data.status)) *)
StatusAfterReviewOfDecision(decision) == decision

(* the status the handler writes to the reviewed upload's step *)
StatusAfterReview(decision) ==
  IF decision = "approved" THEN "approved" ELSE "awaiting_upload"

(* no step found to activate *)
nextStepNone(S, stepId) == 0

(* sortedSteps.find(s => s.order > step.order && s.status === "pending"):
   the first such step in ascending order, 0 when there is none (steps of
   equal order keep the order of their ids) *)
nextStep(S, stepId) ==
  LET cand == {s \in getStepsByJob(S, S[stepId].jobId) :
                 S[s].order > S[stepId].order /\ S[s].status = "pending"}
  IN IF cand = {} THEN 0
     ELSE CHOOSE s \in cand :
            \A t \in cand : S[s].order < S[t].order \/ (S[s].order = S[t].order /\ s <= t)

(* sortedSteps.every(s => s.order <= step.order ? true : s.status === "approved") *)
allApproved(S, stepId) ==
  \A s \in getStepsByJob(S, S[stepId].jobId) :
    S[s].order <= S[stepId].order \/ S[s].status = "approved"

(* the workflow part of the handler, after createReview: the steps and jobs
   tables it leaves *)
reviewWorkflow(S, J, U, body) ==
  IF body.uploadId \notin DOMAIN U THEN [steps |-> S, jobs |-> J]
  ELSE
    LET stepId == U[body.uploadId].stepId
        S1 == updateStepStatus(S, stepId, StatusAfterReview(body.status))
    IN
    IF body.status = "approved" THEN
      IF stepId \notin DOMAIN S1 THEN [steps |-> S1, jobs |-> J]
      ELSE IF nextStep(S1, stepId) # 0
      THEN [steps |-> updateStepStatus(S1, nextStep(S1, stepId), "awaiting_upload"),
            jobs |-> J]
      ELSE IF allApproved(S1, stepId)
      THEN [steps |-> S1, jobs |-> updateJobStatus(J, S1[stepId].jobId, "completed")]
      ELSE [steps |-> S1, jobs |-> J]
    ELSE IF body.status = "rejected" THEN [steps |-> S1, jobs |-> J]
    ELSE [steps |-> S, jobs |-> J]

ResubAfterReview(body) ==
  IF /\ resub.stage = 1
     /\ body.status = "rejected"
     /\ body.feedback # ""
     /\ body.uploadId \in DOMAIN uploads
     /\ uploads[body.uploadId].stepId = resub.step
  THEN [step |-> resub.step, stage |-> 2]
  ELSE NoResub

(* the handler is submitReviewUpTo; cap bounds the serial of reviews.id, and
   SubmitReview is the handler under the bound MaxReviews *)
submitReviewUpTo(cap, u, body) ==
  LET pre == IF body.uploadId \in DOMAIN uploads /\ uploads[body.uploadId].stepId \in DOMAIN steps
             THEN steps[uploads[body.uploadId].stepId].status ELSE "none"
      fail(code) ==
        /\ last' = Response("submitReview", code, u, 0, "", "", "none", 0)
        /\ resub' = NoResub
        /\ UNCHANGED <<tables, serials, calls, shown, del>>
      after == reviewWorkflow(steps, jobs, uploads, body)
  IN
  IF Role(u) # "manager" THEN fail(403)
  ELSE IF ~validReview(body) THEN fail(400)
  ELSE
    /\ reviewSeq < cap
    /\ reviews' = Insert(reviews, reviewSeq + 1,
                    [uploadId |-> body.uploadId, managerId |-> u,
                     status |-> body.status, feedback |-> body.feedback])
    /\ reviewSeq' = reviewSeq + 1
    /\ steps' = after.steps
    /\ jobs' = after.jobs
    /\ last' = Response("submitReview", 200, u, body.uploadId, body.status, body.feedback, pre, 0)
    /\ resub' = ResubAfterReview(body)
    /\ UNCHANGED <<uploads, jobSeq, stepSeq, uploadSeq, calls, shown, del>>

SubmitReview(u, body) == submitReviewUpTo(MaxReviews, u, body)

(* ---- DELETE /api/jobs/:id and DELETE /api/steps/:id ---- *)
(* storage.deleteStep: the reviews of the step's uploads, the uploads, the step *)
deleteStep(T, id) ==
  LET ups == getUploadsByStep(T.uploads, id)
  IN [jobs |-> T.jobs,
      steps |-> Remove(T.steps, {id}),
      uploads |-> Remove(T.uploads, ups),
      reviews |-> Remove(T.reviews, {r \in DOMAIN T.reviews : T.reviews[r].uploadId \in ups})]

(* the cascade without its delete of the reviews *)
deleteJobKeepReviews(T, id) ==
  LET jobSteps == getStepsByJob(T.steps, id)
      ups == {u \in DOMAIN T.uploads : T.uploads[u].stepId \in jobSteps}
  IN [jobs |-> Remove(T.jobs, {id}),
      steps |-> Remove(T.steps, jobSteps),
      uploads |-> Remove(T.uploads, ups),
      reviews |-> T.reviews]

(* storage.deleteJob: per step the reviews of its uploads and its uploads,
   then the steps, then the job *)
deleteJob(T, id) ==
  LET jobSteps == getStepsByJob(T.steps, id)
      ups == {u \in DOMAIN T.uploads : T.uploads[u].stepId \in jobSteps}
  IN [jobs |-> Remove(T.jobs, {id}),
      steps |-> Remove(T.steps, jobSteps),
      uploads |-> Remove(T.uploads, ups),
      reviews |-> Remove(T.reviews, {r \in DOMAIN T.reviews : T.reviews[r].uploadId \in ups})]

Tables == [jobs |-> jobs, steps |-> steps, uploads |-> uploads, reviews |-> reviews]

SetTables(T) ==
  /\ jobs' = T.jobs
  /\ steps' = T.steps
  /\ uploads' = T.uploads
  /\ reviews' = T.reviews

DeleteJob(u, jobId) ==
  LET fail(code, id) ==
        /\ last' = Response("deleteJob", code, u, id, "", "", "none", 0)
        /\ UNCHANGED <<tables, serials, calls, shown, del>>
  IN
  /\ resub' = NoResub
  /\ IF Role(u) # "manager" THEN fail(403, 0)
     ELSE IF jobId \notin DOMAIN jobs THEN fail(404, jobId)
     ELSE IF jobs[jobId].managerId # u THEN fail(403, jobId)
     ELSE
       /\ SetTables(deleteJob(Tables, jobId))
       /\ last' = Response("deleteJob", 200, u, jobId, "", "", "none", 0)
       /\ UNCHANGED <<serials, calls, shown, del>>

DeleteStep(u, stepId) ==
  LET pre == IF stepId \in DOMAIN steps THEN steps[stepId].status ELSE "none"
      fail(code, id) ==
        /\ last' = Response("deleteStep", code, u, id, "", "", "none", 0)
        /\ UNCHANGED <<tables, serials, calls, shown, del>>
  IN
  /\ resub' = NoResub
  /\ IF Role(u) # "manager" THEN fail(403, 0)
     ELSE IF stepId \notin DOMAIN steps THEN fail(404, stepId)
     ELSE IF steps[stepId].jobId \notin DOMAIN jobs
               \/ jobs[steps[stepId].jobId].managerId # u THEN fail(403, stepId)
     ELSE
       /\ SetTables(deleteStep(Tables, stepId))
       /\ last' = Response("deleteStep", 200, u, stepId, "", "", pre, 0)
       /\ UNCHANGED <<serials, calls, shown, del>>

Next ==
  \/ \E u \in Callers, body \in JobBodies : CreateJob(u, body)
  \/ \E u \in Callers, s \in {0} \cup StepIds, f \in BOOLEAN : SubmitUpload(u, s, f)
  \/ \E u \in Callers, body \in ReviewBodies : SubmitReview(u, body)
  \/ \E u \in Callers, j \in JobIds : DeleteJob(u, j)
  \/ \E u \in Callers, s \in StepIds : DeleteStep(u, s)

Spec == Init /\ [][Next]_vars

(* ---- POST /api/reviews, one storage call at a time ---- *)
(* The handler of two requests that are in flight together: each action is
   the handler's run from one await to the next, so the storage calls of the
   two requests interleave in every order. *)
Answer(i, code) == [calls EXCEPT ![i].pc = "done", ![i].code = code]

AllIdle == \A i \in Slots : calls[i].pc = "idle"

(* two requests arrive before either has run *)
ReviewsArrive(u1, b1, u2, b2) ==
  /\ AllIdle
  /\ calls' = [i \in Slots |->
                 [IdleCall EXCEPT !.pc = "start",
                                  !.caller = IF i = 1 THEN u1 ELSE u2,
                                  !.body = IF i = 1 THEN b1 ELSE b2]]
  /\ UNCHANGED <<tables, serials, last, resub, shown, del>>

(* getUser, the role check, safeParse, createReview *)
ReviewStart(i) ==
  LET c == calls[i]
  IN
  /\ c.pc = "start"
  /\ IF Role(c.caller) # "manager" THEN
       /\ calls' = Answer(i, 403)
       /\ UNCHANGED <<reviews, reviewSeq>>
     ELSE IF ~validReview(c.body) THEN
       /\ calls' = Answer(i, 400)
       /\ UNCHANGED <<reviews, reviewSeq>>
     ELSE
       /\ reviewSeq < MaxReviews
       /\ reviews' = Insert(reviews, reviewSeq + 1,
                       [uploadId |-> c.body.uploadId, managerId |-> c.caller,
                        status |-> c.body.status, feedback |-> c.body.feedback])
       /\ reviewSeq' = reviewSeq + 1
       /\ calls' = [calls EXCEPT ![i].pc = "getUpload"]
  /\ UNCHANGED <<jobs, steps, uploads, jobSeq, stepSeq, uploadSeq, last, resub, shown, del>>

(* storage.getUpload and the branch on the decision *)
ReviewGetUpload(i) ==
  LET c == calls[i]
  IN
  /\ c.pc = "getUpload"
  /\ calls' =
       IF c.body.uploadId \notin DOMAIN uploads THEN Answer(i, 200)
       ELSE IF c.body.status \in {"approved", "rejected"}
       THEN [calls EXCEPT ![i].pc = "updateStepStatus",
                          ![i].stepId = uploads[c.body.uploadId].stepId]
       ELSE Answer(i, 200)
  /\ UNCHANGED <<tables, serials, last, resub, shown, del>>

(* storage.updateStepStatus(upload.stepId, ...) of either branch *)
ReviewUpdateStepStatus(i) ==
  LET c == calls[i]
  IN
  /\ c.pc = "updateStepStatus"
  /\ steps' = updateStepStatus(steps, c.stepId, StatusAfterReview(c.body.status))
  /\ calls' = IF c.body.status = "approved"
              THEN [calls EXCEPT ![i].pc = "getStep"]
              ELSE Answer(i, 200)
  /\ UNCHANGED <<jobs, uploads, reviews, serials, last, resub, shown, del>>

(* storage.getStep(upload.stepId) *)
ReviewGetStep(i) ==
  LET c == calls[i]
  IN
  /\ c.pc = "getStep"
  /\ calls' = IF c.stepId \notin DOMAIN steps THEN Answer(i, 200)
              ELSE [calls EXCEPT ![i].pc = "getStepsByJob", ![i].step = steps[c.stepId]]
  /\ UNCHANGED <<tables, serials, last, resub, shown, del>>

(* storage.getStepsByJob(step.jobId): the rows as they are at this moment *)
ReviewGetStepsByJob(i) ==
  LET c == calls[i]
  IN
  /\ c.pc = "getStepsByJob"
  /\ calls' = [calls EXCEPT ![i].pc = "advance",
                            ![i].allSteps = [x \in getStepsByJob(steps, c.step.jobId) |-> steps[x]]]
  /\ UNCHANGED <<tables, serials, last, resub, shown, del>>

(* find and every over the rows read, then the one write they lead to *)
ReviewAdvance(i) ==
  LET c == calls[i]
      S == Insert(c.allSteps, c.stepId, c.step)
      n == nextStep(S, c.stepId)
  IN
  /\ c.pc = "advance"
  /\ IF n # 0 THEN
       /\ steps' = updateStepStatus(steps, n, "awaiting_upload")
       /\ calls' = [Answer(i, 200) EXCEPT ![i].activated = n]
       /\ UNCHANGED jobs
     ELSE IF allApproved(S, c.stepId) THEN
       /\ jobs' = updateJobStatus(jobs, c.step.jobId, "completed")
       /\ calls' = [Answer(i, 200) EXCEPT ![i].completed = TRUE]
       /\ UNCHANGED steps
     ELSE
       /\ calls' = Answer(i, 200)
       /\ UNCHANGED <<jobs, steps>>
  /\ UNCHANGED <<uploads, reviews, serials, last, resub, shown, del>>

(* a job is created and its steps uploaded to, then two reviews arrive
   together and run interleaved *)
RaceBodies == {GoodBody([i \in 1..n |-> TRUE]) : n \in 1..MaxSteps}

RaceReviewPairs ==
  {<<b1, b2>> \in ReviewBodies \X ReviewBodies : b1.uploadId = b2.uploadId}

NextRace ==
  \/ \E body \in RaceBodies : AllIdle /\ CreateJob("m1", body)
  \/ \E s \in StepIds : AllIdle /\ SubmitUpload("w1", s, TRUE)
  \/ \E u1, u2 \in Callers, b \in RaceReviewPairs : ReviewsArrive(u1, b[1], u2, b[2])
  \/ \E i \in Slots : ReviewStart(i)
  \/ \E i \in Slots : ReviewGetUpload(i)
  \/ \E i \in Slots : ReviewUpdateStepStatus(i)
  \/ \E i \in Slots : ReviewGetStep(i)
  \/ \E i \in Slots : ReviewGetStepsByJob(i)
  \/ \E i \in Slots : ReviewAdvance(i)

SpecRace == Init /\ [][NextRace]_vars

(* ---- GET /api/jobs/:id ---- *)
(* the status code of the response: 404 when storage.getJob finds no row,
   403 for a manager or worker that is neither the job's manager nor its
   worker *)
GetJob(J, u, jobId) ==
  IF jobId \notin DOMAIN J THEN 404
  ELSE IF Role(u) = "manager_view_only" THEN 200
  ELSE IF J[jobId].managerId # u /\ J[jobId].workerId # u THEN 403
  ELSE 200

(* ---- two jobs side by side ---- *)
(* The workflow of two jobs of one manager and one worker, with the deletion
   of whole jobs; the requests pass validation. *)
MaxJobsCascade == 2
MaxDraftsCascade == 2

CascadeJobIds == 1..MaxJobsCascade
CascadeStepIds == 1..(MaxJobsCascade * MaxDraftsCascade)

CascadeBodies == {GoodBody([i \in 1..n |-> TRUE]) : n \in 1..MaxDraftsCascade}

CascadeReviews == {body \in ReviewBodies : validReview(body)}

NextCascade ==
  \/ \E u \in Callers, body \in CascadeBodies : createJobUpTo(MaxJobsCascade, u, body)
  \/ \E u \in Callers, s \in CascadeStepIds : SubmitUpload(u, s, TRUE)
  \/ \E u \in Callers, body \in CascadeReviews : SubmitReview(u, body)
  \/ \E u \in Callers, j \in CascadeJobIds : DeleteJob(u, j)

SpecCascade == Init /\ [][NextCascade]_vars

(* ---- requests of users without the right to make them ---- *)
Managers == {u \in Users : Role(u) = "manager"}
Workers == {u \in Users : Role(u) = "worker"}
ViewOnly == {u \in Users : Role(u) = "manager_view_only"}

(* The job of manager m1 and worker w1, with a second manager and a second
   worker sending requests as well; the requests pass validation. *)
NextAccess ==
  \/ \E body \in CascadeBodies : CreateJob("m1", body)
  \/ \E u \in Workers, s \in StepIds : SubmitUpload(u, s, TRUE)
  \/ \E u \in Managers, body \in CascadeReviews : SubmitReview(u, body)
  \/ \E u \in Managers, j \in JobIds : DeleteJob(u, j)
  \/ \E u \in Managers, s \in StepIds : DeleteStep(u, s)

SpecAccess == Init /\ [][NextAccess]_vars

(* The six mutating routes, each called by the user it is meant for (the
   manager m1, or the worker w1) and by v1, the user with the read-only
   manager role; the requests pass validation, but for one createStep body. *)
NextViewOnly ==
  \/ \E u \in {"m1"} \cup ViewOnly, body \in CascadeBodies : CreateJob(u, body)
  \/ \E u \in {"m1"} \cup ViewOnly, body \in StepBodies : CreateStep(u, body)
  \/ \E u \in {"w1"} \cup ViewOnly, s \in StepIds : SubmitUpload(u, s, TRUE)
  \/ \E u \in {"m1"} \cup ViewOnly, body \in CascadeReviews : SubmitReview(u, body)
  \/ \E u \in {"m1"} \cup ViewOnly, j \in JobIds : DeleteJob(u, j)
  \/ \E u \in {"m1"} \cup ViewOnly, s \in StepIds : DeleteStep(u, s)

SpecViewOnly == Init /\ [][NextViewOnly]_vars

(* ---- job status as the dashboards derive it ---- *)
(* the status without its awaiting_review test *)
getJobStatusNoReviewTest(S, jobId) ==
  LET js == getStepsByJob(S, jobId)
  IN IF \A s \in js : S[s].status = "approved" THEN "completed"
     ELSE IF \E s \in js : S[s].status # "pending" THEN "in_progress"
     ELSE "pending"

getJobStatus(S, jobId) ==
  LET js == getStepsByJob(S, jobId)
  IN IF \E s \in js : S[s].status = "awaiting_review" THEN "awaiting_review"
     ELSE IF \A s \in js : S[s].status = "approved" THEN "completed"
     ELSE IF \E s \in js : S[s].status # "pending" THEN "in_progress"
     ELSE "pending"

(* ---- the dashboard computes the status of a job ---- *)
(* A job with up to MaxSteps steps of any statuses: POST /api/steps inserts
   a step with the status its body names, and a job is left without steps
   by createJob's early return or by step deletion. The dashboard renders
   the job up to MaxRenders times. *)
MaxRenders == 2

StatusLists == UNION {[1..n -> StepStatuses] : n \in 0..MaxSteps}

StepsOfStatuses(q) == [i \in 1..Len(q) |-> [jobId |-> 1, order |-> i, status |-> q[i]]]

InitStatus ==
  /\ jobs \in {[x \in {1} |-> [managerId |-> "m1", workerId |-> "w1", status |-> st]] :
                 st \in {"in_progress", "completed"}}
  /\ steps \in {StepsOfStatuses(q) : q \in StatusLists}
  /\ uploads = Empty
  /\ reviews = Empty
  /\ jobSeq = 1
  /\ stepSeq = Cardinality(DOMAIN steps)
  /\ uploadSeq = 0
  /\ reviewSeq = 0
  /\ last = NoCall
  /\ resub = NoResub
  /\ calls = [i \in Slots |-> IdleCall]
  /\ shown = NotShown
  /\ del = NoDelete

(* a render of the dashboard's job card: getJobStatus(job) *)
ShowJobStatus(j) ==
  /\ shown.renders < MaxRenders
  /\ shown' = [jobId |-> j, status |-> getJobStatus(steps, j), renders |-> shown.renders + 1]
  /\ UNCHANGED <<tables, serials, last, resub, calls, del>>

NextStatus == \E j \in DOMAIN jobs : ShowJobStatus(j)

SpecStatus == InitStatus /\ [][NextStatus]_vars

(* ---- storage.deleteJob and storage.deleteStep, one statement at a time ---- *)
(* Each action is one awaited statement of the storage method; a reader can
   see the tables between two of them. The handler's checks are made when
   the delete is called, its response is sent when the method has returned. *)

(* the loop without its delete of the reviews *)
deleteReviewsOfNoUpload(R, uploadId) == R

(* db.delete(reviews).where(eq(reviews.uploadId, upload.id)) *)
deleteReviewsOfUpload(R, uploadId) == Remove(R, getReviewsByUpload(R, uploadId))

(* db.delete(uploads).where(eq(uploads.stepId, step.id)) *)
deleteUploadsOfStep(U, stepId) == Remove(U, getUploadsByStep(U, stepId))

(* DELETE /api/jobs/:id up to its call of storage.deleteJob *)
DeleteJobCalled(u, jobId) ==
  /\ del.pc = "idle"
  /\ Role(u) = "manager"
  /\ jobId \in DOMAIN jobs
  /\ jobs[jobId].managerId = u
  /\ del' = [pc |-> "selectSteps", op |-> "deleteJob", caller |-> u, id |-> jobId,
             jobSteps |-> {}, step |-> 0, stepUploads |-> {}, before |-> Tables]
  /\ UNCHANGED <<tables, serials, last, resub, calls, shown>>

(* DELETE /api/steps/:id up to its call of storage.deleteStep *)
DeleteStepCalled(u, stepId) ==
  /\ del.pc = "idle"
  /\ Role(u) = "manager"
  /\ stepId \in DOMAIN steps
  /\ steps[stepId].jobId \in DOMAIN jobs
  /\ jobs[steps[stepId].jobId].managerId = u
  /\ del' = [pc |-> "selectUploads", op |-> "deleteStep", caller |-> u, id |-> stepId,
             jobSteps |-> {stepId}, step |-> 0, stepUploads |-> {}, before |-> Tables]
  /\ UNCHANGED <<tables, serials, last, resub, calls, shown>>

(* const jobSteps = await db.select().from(steps).where(eq(steps.jobId, id)) *)
DeleteSelectSteps ==
  /\ del.pc = "selectSteps"
  /\ del' = [del EXCEPT !.jobSteps = getStepsByJob(steps, del.id),
                        !.pc = IF getStepsByJob(steps, del.id) = {}
                               THEN "deleteSteps" ELSE "selectUploads"]
  /\ UNCHANGED <<tables, serials, last, resub, calls, shown>>

(* const stepUploads = await db.select().from(uploads).where(...): of the
   next step of the loop in deleteJob (the select has no ORDER BY), of the
   one step in deleteStep *)
DeleteSelectUploads ==
  /\ del.pc = "selectUploads"
  /\ \E s \in del.jobSteps :
       del' = [del EXCEPT !.step = s,
                          !.jobSteps = del.jobSteps \ {s},
                          !.stepUploads = getUploadsByStep(uploads, s),
                          !.pc = IF getUploadsByStep(uploads, s) = {}
                                 THEN "deleteUploads" ELSE "deleteReviews"]
  /\ UNCHANGED <<tables, serials, last, resub, calls, shown>>

(* one round of the inner loop *)
DeleteReviews ==
  /\ del.pc = "deleteReviews"
  /\ \E p \in del.stepUploads :
       /\ reviews' = deleteReviewsOfUpload(reviews, p)
       /\ del' = [del EXCEPT !.stepUploads = del.stepUploads \ {p},
                             !.pc = IF del.stepUploads = {p}
                                    THEN "deleteUploads" ELSE "deleteReviews"]
  /\ UNCHANGED <<jobs, steps, uploads, serials, last, resub, calls, shown>>

DeleteUploads ==
  /\ del.pc = "deleteUploads"
  /\ uploads' = deleteUploadsOfStep(uploads, del.step)
  /\ del' = [del EXCEPT !.pc = IF del.jobSteps = {} THEN "deleteSteps" ELSE "selectUploads"]
  /\ UNCHANGED <<jobs, steps, reviews, serials, last, resub, calls, shown>>

(* db.delete(steps).where(eq(steps.jobId, id)) in deleteJob,
   db.delete(steps).where(eq(steps.id, id)) in deleteStep *)
DeleteSteps ==
  /\ del.pc = "deleteSteps"
  /\ steps' = IF del.op = "deleteJob"
              THEN Remove(steps, getStepsByJob(steps, del.id))
              ELSE Remove(steps, {del.id})
  /\ del' = [del EXCEPT !.pc = IF del.op = "deleteJob" THEN "deleteJob" ELSE "done"]
  /\ UNCHANGED <<jobs, uploads, reviews, serials, last, resub, calls, shown>>

(* db.delete(jobs).where(eq(jobs.id, id)) *)
DeleteJobRow ==
  /\ del.pc = "deleteJob"
  /\ jobs' = Remove(jobs, {del.id})
  /\ del' = [del EXCEPT !.pc = "done"]
  /\ UNCHANGED <<steps, uploads, reviews, serials, last, resub, calls, shown>>

(* res.json({ message: ... }) *)
DeleteAnswered ==
  /\ del.pc = "done"
  /\ last' = Response(del.op, 200, del.caller, del.id, "", "", "none", 0)
  /\ resub' = NoResub
  /\ del' = NoDelete
  /\ UNCHANGED <<tables, serials, calls, shown>>

(* requests are made while no delete is in flight *)
NextDelete ==
  \/ del.pc = "idle" /\ \E body \in CascadeBodies : CreateJob("m1", body)
  \/ del.pc = "idle" /\ \E s \in StepIds : SubmitUpload("w1", s, TRUE)
  \/ del.pc = "idle" /\ \E body \in CascadeReviews : SubmitReview("m1", body)
  \/ \E j \in JobIds : DeleteJobCalled("m1", j)
  \/ \E s \in StepIds : DeleteStepCalled("m1", s)
  \/ DeleteSelectSteps
  \/ DeleteSelectUploads
  \/ DeleteReviews
  \/ DeleteUploads
  \/ DeleteSteps
  \/ DeleteJobRow
  \/ DeleteAnswered

SpecDelete == Init /\ [][NextDelete]_vars

(* ---- a job worked through to completion ---- *)
(* The worker uploads to the step that is awaiting_upload, the manager
   approves the latest upload of the step that is awaiting_review, or rejects
   it with feedback a bounded number of times; nothing is deleted. *)
MaxRejections == 3
MaxUploadsProgress == MaxSteps + MaxRejections
MaxReviewsProgress == MaxSteps + MaxRejections

Rejections == {r \in DOMAIN reviews : reviews[r].status = "rejected"}

ManagerCreatesJob ==
  /\ jobs = Empty
  /\ \E body \in RaceBodies : CreateJob("m1", body)

WorkerUploads ==
  \E s \in DOMAIN steps :
    /\ steps[s].status = "awaiting_upload"
    /\ submitUploadUpTo(MaxUploadsProgress, jobs[steps[s].jobId].workerId, s, TRUE)

ManagerApproves ==
  \E s \in DOMAIN steps :
    /\ steps[s].status = "awaiting_review"
    /\ submitReviewUpTo(MaxReviewsProgress, jobs[steps[s].jobId].managerId,
         [uploadId |-> latestUpload(uploads, s), status |-> "approved", feedback |-> ""])

ManagerRejects ==
  /\ Cardinality(Rejections) < MaxRejections
  /\ \E s \in DOMAIN steps :
       /\ steps[s].status = "awaiting_review"
       /\ submitReviewUpTo(MaxReviewsProgress, jobs[steps[s].jobId].managerId,
            [uploadId |-> latestUpload(uploads, s), status |-> "rejected",
             feedback |-> "blurry"])

NextProgress ==
  \/ ManagerCreatesJob
  \/ WorkerUploads
  \/ ManagerApproves
  \/ ManagerRejects

(* the worker does upload and the manager does approve: neither request
   stays possible forever without being made *)
SpecProgress ==
  Init /\ [][NextProgress]_vars /\ WF_vars(WorkerUploads) /\ WF_vars(ManagerApproves)

(* the error of the taxonomy a status code stands for; no handler sends a
   code for InvalidState *)
ErrorKind(code) ==
  CASE code = 200 -> "Ok"
    [] code = 400 -> "ValidationError"
    [] code = 403 -> "Forbidden"
    [] code = 404 -> "NotFound"
    [] code = 500 -> "StorageError"
    [] OTHER -> "None"

(* ---- the claims ---- *)
(* A claim about one request is an action property: for every caller and
   request, a step that is that request's handler has the stated effect.
   Its first conjunct, last'.op, only names the handler (each handler sets
   it), so that steps of other handlers are passed over quickly. *)
ActiveSteps(j) == {s \in getStepsByJob(steps, j) : steps[s].status \in ActiveStatuses}

IsAssignedWorker(u, stepId) ==
  /\ Role(u) = "worker"
  /\ steps[stepId].jobId \in DOMAIN jobs
  /\ jobs[steps[stepId].jobId].workerId = u

IsJobManager(u, stepId) ==
  /\ Role(u) = "manager"
  /\ steps[stepId].jobId \in DOMAIN jobs
  /\ jobs[steps[stepId].jobId].managerId = u

(* the step an existing upload belongs to *)
StepOf(uploadId) == uploads[uploadId].stepId

(* the jobs the last request was about: the job created, the job of the
   step uploaded to, the job of the reviewed upload's step; a deleted step
   no longer names its job, so every job counts *)
AffectedJobs ==
  CASE last.op = "createJob" -> {last.id} \cap DOMAIN jobs
    [] last.op = "submitUpload" -> {steps[last.id].jobId} \cap DOMAIN jobs
    [] last.op = "submitReview" ->
         IF last.id \in DOMAIN uploads /\ StepOf(last.id) \in DOMAIN steps
         THEN {steps[StepOf(last.id)].jobId} \cap DOMAIN jobs ELSE {}
    [] last.op = "deleteStep" -> DOMAIN jobs
    [] OTHER -> {}

(* C1: in every state reached by completed createJob, submitUpload,
   submitReview, deleteStep and deleteJob calls, each job has at most one
   step whose status is awaiting_upload, awaiting_review or rejected. *)
C1_AtMostOneActiveStep ==
  \A j \in DOMAIN jobs : Cardinality(ActiveSteps(j)) <= 1

(* C2: after every completed createJob, submitUpload, submitReview and
   deleteStep, the persisted status of a job equals getJobStatus of its
   steps; so it is awaiting_review whenever a step is awaiting_review. *)
C2_JobStatusInSync ==
  last.code = 200 => \A j \in AffectedJobs : jobs[j].status = getJobStatus(steps, j)

(* C3: submitUpload by the assigned worker on a step whose status is pending
   or approved fails with InvalidState, creates no Upload row and leaves the
   step status unchanged. *)
C3_UploadToIneligibleStepFails ==
  [][\A u \in Users, s \in StepIds :
       (/\ last'.op = "submitUpload"
        /\ s \in DOMAIN steps
        /\ steps[s].status \in {"pending", "approved"}
        /\ IsAssignedWorker(u, s)
        /\ SubmitUpload(u, s, TRUE))
       => (/\ ErrorKind(last'.code) = "InvalidState"
           /\ uploads' = uploads
           /\ steps' = steps)]_vars

(* C4: submitReview by a manager with decision rejected and empty or missing
   feedback fails with ValidationError, creates no Review row and leaves the
   step status unchanged. *)
C4_RejectionNeedsFeedback ==
  [][\A u \in Users, body \in ReviewBodies :
       (/\ last'.op = "submitReview"
        /\ Role(u) = "manager"
        /\ body.status = "rejected"
        /\ body.feedback = ""
        /\ SubmitReview(u, body))
       => (/\ ErrorKind(last'.code) = "ValidationError"
           /\ reviews' = reviews
           /\ steps' = steps)]_vars

(* C5: submitReview by the job's manager on an upload whose step is not
   awaiting_review fails with InvalidState: no Review row is created and no
   step or job status changes. *)
C5_ReviewNeedsAwaitingReview ==
  [][\A u \in Users, body \in ReviewBodies :
       (/\ last'.op = "submitReview"
        /\ body.uploadId \in DOMAIN uploads
        /\ StepOf(body.uploadId) \in DOMAIN steps
        /\ steps[StepOf(body.uploadId)].status # "awaiting_review"
        /\ IsJobManager(u, StepOf(body.uploadId))
        /\ validReview(body)
        /\ body.status = "rejected" => body.feedback # ""
        /\ SubmitReview(u, body))
       => (/\ ErrorKind(last'.code) = "InvalidState"
           /\ reviews' = reviews
           /\ steps' = steps
           /\ jobs' = jobs)]_vars

(* C6: an approving submitReview by the job's manager on the latest upload of
   a step that is awaiting_review sets that step to approved and then either
   changes exactly one other step, the lowest-order pending step of greater
   order, to awaiting_upload, or, when there is no such step, sets the job
   status to completed. *)
C6_ApprovalAdvancesOrCompletes ==
  [][\A u \in Users, body \in ReviewBodies :
       (/\ last'.op = "submitReview"
        /\ body.status = "approved"
        /\ body.uploadId \in DOMAIN uploads
        /\ StepOf(body.uploadId) \in DOMAIN steps
        /\ body.uploadId = latestUpload(uploads, StepOf(body.uploadId))
        /\ steps[StepOf(body.uploadId)].status = "awaiting_review"
        /\ IsJobManager(u, StepOf(body.uploadId))
        /\ SubmitReview(u, body))
       => LET s == StepOf(body.uploadId)
              later == {t \in getStepsByJob(steps, steps[s].jobId) :
                          steps[t].order > steps[s].order /\ steps[t].status = "pending"}
          IN IF later # {}
             THEN \E t \in later :
                    /\ \A x \in later : steps[t].order <= steps[x].order
                    /\ steps' = [steps EXCEPT ![s].status = "approved",
                                              ![t].status = "awaiting_upload"]
             ELSE /\ steps' = [steps EXCEPT ![s].status = "approved"]
                  /\ jobs'[steps[s].jobId].status = "completed"]_vars

(* C7: a rejecting submitReview with feedback, by the job's manager, on the
   latest upload of a step that is awaiting_review sets that step's status to
   awaiting_upload (not to rejected) and leaves every other step's status and
   the job's status unchanged. *)
C7_RejectionReopensStep ==
  [][\A u \in Users, body \in ReviewBodies :
       (/\ last'.op = "submitReview"
        /\ body.status = "rejected"
        /\ body.feedback # ""
        /\ body.uploadId \in DOMAIN uploads
        /\ StepOf(body.uploadId) \in DOMAIN steps
        /\ body.uploadId = latestUpload(uploads, StepOf(body.uploadId))
        /\ steps[StepOf(body.uploadId)].status = "awaiting_review"
        /\ IsJobManager(u, StepOf(body.uploadId))
        /\ SubmitReview(u, body))
       => (/\ steps' = [steps EXCEPT ![StepOf(body.uploadId)].status = "awaiting_upload"]
           /\ jobs' = jobs)]_vars

(* a rejection with feedback of the latest upload of a step that was
   awaiting_review has just been answered with success *)
C7_Witness ==
  /\ last.op = "submitReview"
  /\ last.code = 200
  /\ last.decision = "rejected"
  /\ last.feedback # ""
  /\ last.pre = "awaiting_review"
  /\ last.id \in DOMAIN uploads
  /\ last.id = latestUpload(uploads, StepOf(last.id))
  /\ steps[StepOf(last.id)].status = "awaiting_upload"
  /\ \E t \in DOMAIN steps : t # StepOf(last.id)

(* C8: from a step that is awaiting_upload and has no uploads, an upload, a
   rejection with feedback and a second upload, one right after the other,
   leave the step with exactly 2 Upload rows and exactly 1 Review row, the
   rejection, attached to the first upload, and the step awaiting_review. *)
C8_ResubmissionCounts ==
  resub.stage = 3 =>
    LET s == resub.step
        ups == getUploadsByStep(uploads, s)
        revs == ReviewsOfStep(uploads, reviews, s)
    IN /\ Cardinality(ups) = 2
       /\ Cardinality(revs) = 1
       /\ \A r \in revs :
            /\ reviews[r].status = "rejected"
            /\ \A v \in ups : reviews[r].uploadId <= v
       /\ steps[s].status = "awaiting_review"

C8_Witness == resub.stage = 3

(* C9: a successful createJob with N >= 1 step drafts creates exactly N steps
   with orders 1..N in draft order; the step of order 1 is awaiting_upload,
   every other step is pending, and the job status is in_progress. *)
C9_CreateJobShape ==
  (last.op = "createJob" /\ last.code = 200) =>
    LET js == getStepsByJob(steps, last.id)
    IN /\ last.drafts >= 1
       /\ Cardinality(js) = last.drafts
       /\ {steps[s].order : s \in js} = 1..last.drafts
       /\ \A s, t \in js : s < t => steps[s].order < steps[t].order
       /\ \A s \in js :
            steps[s].status = IF steps[s].order = 1 THEN "awaiting_upload" ELSE "pending"
       /\ jobs[last.id].status = "in_progress"

C9_Witness == last.op = "createJob" /\ last.code = 200 /\ last.drafts = MaxSteps

(* the request bodies that carry an empty step list *)
EmptyListBodies == {GoodBody(<< >>)}

(* C10: createJob with an empty step list fails, for a manager with a
   validation error, and creates neither a Job row nor a Step row. *)
C10_EmptyStepListRejected ==
  [][\A u \in Users, body \in EmptyListBodies :
       (last'.op = "createJob" /\ CreateJob(u, body))
       => (/\ last'.code # 200
           /\ Role(u) = "manager" => ErrorKind(last'.code) = "ValidationError"
           /\ jobs' = jobs
           /\ steps' = steps)]_vars

(* a manager's createJob with an empty step list has just been answered *)
C10_Witness ==
  /\ last.op = "createJob"
  /\ Role(last.caller) = "manager"
  /\ last.drafts = 0
  /\ last.code = 400

(* C11: whenever createJob answers with an error, no Job row exists that has
   fewer steps than the submitted draft list (the job it was creating is
   either absent or complete). *)
C11_CreateJobAllOrNothing ==
  (last.op = "createJob" /\ last.code # 200) =>
    \A j \in DOMAIN jobs :
      j = last.id => Cardinality(getStepsByJob(steps, j)) >= last.drafts

(* the rows of job j in the tables S, U, R: its steps, their uploads, the
   reviews of those uploads *)
StepsOfJob(S, j) == getStepsByJob(S, j)

UploadsOfJob(S, U, j) == {p \in DOMAIN U : U[p].stepId \in StepsOfJob(S, j)}

ReviewsOfJob(S, U, R, j) == {r \in DOMAIN R : R[r].uploadId \in UploadsOfJob(S, U, j)}

(* the rows of table t outside the set gone are the same in table t2 *)
SameOutside(t, t2, gone) ==
  /\ DOMAIN t2 = DOMAIN t \ gone
  /\ \A x \in DOMAIN t2 : t2[x] = t[x]

(* C12: after a completed deleteJob(j) no Job, Step, Upload or Review row of
   job j remains, every other row is unchanged, and getJob(j) answers
   NotFound to every user. *)
C12_DeleteJobCascades ==
  [][\A u \in Users, j \in CascadeJobIds :
       (/\ last'.op = "deleteJob"
        /\ DeleteJob(u, j)
        /\ last'.code = 200)
       => (/\ j \notin DOMAIN jobs'
           /\ StepsOfJob(steps', j) = {}
           /\ SameOutside(jobs, jobs', {j})
           /\ SameOutside(steps, steps', StepsOfJob(steps, j))
           /\ SameOutside(uploads, uploads', UploadsOfJob(steps, uploads, j))
           /\ SameOutside(reviews, reviews', ReviewsOfJob(steps, uploads, reviews, j))
           /\ \A v \in Users : ErrorKind(GetJob(jobs', v, j)) = "NotFound")]_vars

(* a job with a reviewed upload has just been deleted while another job
   keeps a step, an upload and a review of its own *)
C12_Witness ==
  /\ last.op = "deleteJob"
  /\ last.code = 200
  /\ reviewSeq > Cardinality(DOMAIN reviews)
  /\ uploadSeq > Cardinality(DOMAIN uploads)
  /\ \E k \in DOMAIN jobs : ReviewsOfJob(steps, uploads, reviews, k) # {}

(* two reviews by managers that pass validation arrived together for the
   same upload, the latest upload of its step, and both have been answered;
   the step was awaiting_review when they arrived, since no review ran before
   them *)
RaceOver ==
  /\ \A i \in Slots :
       /\ calls[i].pc = "done"
       /\ Role(calls[i].caller) = "manager"
       /\ validReview(calls[i].body)
       /\ calls[i].body.status = "rejected" => calls[i].body.feedback # ""
  /\ calls[1].body.uploadId \in DOMAIN uploads
  /\ calls[1].body.uploadId = latestUpload(uploads, StepOf(calls[1].body.uploadId))

(* C13: of two submitReview calls on the same upload whose storage calls
   interleave, exactly one takes effect and the other is answered
   InvalidState: the upload has one Review row, at most one step was
   activated, and the job was set to completed at most once. *)
C13_ConcurrentReviewsOneEffect ==
  RaceOver =>
    /\ \E i, k \in Slots :
         /\ i # k
         /\ calls[i].code = 200
         /\ ErrorKind(calls[k].code) = "InvalidState"
    /\ Cardinality(getReviewsByUpload(reviews, calls[1].body.uploadId)) = 1
    /\ Cardinality({i \in Slots : calls[i].activated # 0}) <= 1
    /\ Cardinality({i \in Slots : calls[i].completed}) <= 1

(* the parts of C13 taken one at a time: the interleaved handlers activate
   two steps, and set the job to completed twice *)
C13_OneActivation ==
  RaceOver => Cardinality({i \in Slots : calls[i].activated # 0}) <= 1

C13_OneCompletion ==
  RaceOver => Cardinality({i \in Slots : calls[i].completed}) <= 1

(* C14: at most one upload is accepted per review cycle of a step: every
   upload of a step other than its latest one has been reviewed, so between
   two consecutive reviews of the step exactly one upload was created. *)
C14_OneUploadPerReviewCycle ==
  \A s \in DOMAIN steps :
    \A p \in getUploadsByStep(uploads, s) :
      p # latestUpload(uploads, s) => getReviewsByUpload(reviews, p) # {}

(* C15: submitUpload by a user who is not the assigned worker of the step's
   job, a second worker included, fails with Forbidden and creates no Upload
   row. *)
C15_UploadOnlyByAssignedWorker ==
  [][\A u \in Users, s \in StepIds :
       (/\ last'.op = "submitUpload"
        /\ s \in DOMAIN steps
        /\ ~IsAssignedWorker(u, s)
        /\ SubmitUpload(u, s, TRUE))
       => (/\ ErrorKind(last'.code) = "Forbidden"
           /\ uploads' = uploads)]_vars

(* C15, its consequence: the workerId of every Upload is the workerId of the
   job that owns its step. *)
C15_UploadsByJobWorker ==
  \A p \in DOMAIN uploads :
    (StepOf(p) \in DOMAIN steps /\ steps[StepOf(p)].jobId \in DOMAIN jobs)
      => uploads[p].workerId = jobs[steps[StepOf(p)].jobId].workerId

(* the manager u does not manage job j *)
NotManagerOf(u, j) ==
  /\ Role(u) = "manager"
  /\ j \in DOMAIN jobs
  /\ jobs[j].managerId # u

(* C16: submitReview, deleteJob and deleteStep by a manager who is not the
   managing user of the affected job fail with Forbidden and change no row. *)
C16_OnlyTheJobsManagerMutates ==
  [][\A u \in Users :
       /\ \A body \in ReviewBodies :
            (/\ last'.op = "submitReview"
             /\ body.uploadId \in DOMAIN uploads
             /\ StepOf(body.uploadId) \in DOMAIN steps
             /\ NotManagerOf(u, steps[StepOf(body.uploadId)].jobId)
             /\ SubmitReview(u, body))
            => (ErrorKind(last'.code) = "Forbidden" /\ UNCHANGED tables)
       /\ \A j \in JobIds :
            (/\ last'.op = "deleteJob"
             /\ NotManagerOf(u, j)
             /\ DeleteJob(u, j))
            => (ErrorKind(last'.code) = "Forbidden" /\ UNCHANGED tables)
       /\ \A s \in StepIds :
            (/\ last'.op = "deleteStep"
             /\ s \in DOMAIN steps
             /\ NotManagerOf(u, steps[s].jobId)
             /\ DeleteStep(u, s))
            => (ErrorKind(last'.code) = "Forbidden" /\ UNCHANGED tables)]_vars

(* C16, the deleting routes alone *)
C16_OnlyTheJobsManagerDeletes ==
  [][\A u \in Users :
       /\ \A j \in JobIds :
            (/\ last'.op = "deleteJob"
             /\ NotManagerOf(u, j)
             /\ DeleteJob(u, j))
            => (ErrorKind(last'.code) = "Forbidden" /\ UNCHANGED tables)
       /\ \A s \in StepIds :
            (/\ last'.op = "deleteStep"
             /\ s \in DOMAIN steps
             /\ NotManagerOf(u, steps[s].jobId)
             /\ DeleteStep(u, s))
            => (ErrorKind(last'.code) = "Forbidden" /\ UNCHANGED tables)]_vars

(* C17: a request of a user with the read-only manager role to createJob,
   createStep, submitUpload, submitReview, deleteJob or deleteStep is
   answered Forbidden and changes no Job, Step, Upload or Review row. *)
C17_ViewOnlyNeverMutates ==
  [][last'.caller \in ViewOnly =>
       (/\ ErrorKind(last'.code) = "Forbidden"
        /\ UNCHANGED <<tables, serials>>)]_vars

(* the read-only manager has been refused a createStep while a job with a
   step awaiting review exists *)
C17_Witness ==
  /\ last.caller \in ViewOnly
  /\ last.op = "createStep"
  /\ last.code = 403
  /\ \E s \in DOMAIN steps : steps[s].status = "awaiting_review"

(* C18: approved is terminal: no submitUpload and no submitReview changes the
   status of a step that is approved. *)
C18_ApprovedIsTerminal ==
  [][\A s \in DOMAIN steps :
       (/\ last'.op \in {"submitUpload", "submitReview"}
        /\ steps[s].status = "approved"
        /\ s \in DOMAIN steps')
       => steps'[s].status = "approved"]_vars

(* C19: steps are completed strictly in order: every step of smaller order
   than a step that is awaiting_upload, awaiting_review or approved is
   approved, and no pending step has an Upload row. *)
C19_StepsInOrder ==
  /\ \A s, t \in DOMAIN steps :
       (/\ steps[s].jobId = steps[t].jobId
        /\ steps[t].order < steps[s].order
        /\ steps[s].status \in {"awaiting_upload", "awaiting_review", "approved"})
       => steps[t].status = "approved"
  /\ \A s \in DOMAIN steps :
       steps[s].status = "pending" => getUploadsByStep(uploads, s) = {}

(* C19, its second part alone *)
C19_NoUploadOnPendingStep ==
  \A s \in DOMAIN steps :
    steps[s].status = "pending" => getUploadsByStep(uploads, s) = {}

(* the status of a job as a function of the set of its steps' statuses *)
StatusOfStatuses(sts) ==
  IF "awaiting_review" \in sts THEN "awaiting_review"
  ELSE IF sts \subseteq {"approved"} THEN "completed"
  ELSE IF sts \ {"pending"} # {} THEN "in_progress"
  ELSE "pending"

(* C20: getJobStatus is a function of the step statuses only: awaiting_review
   if any step is awaiting_review, else completed if all steps are approved,
   else in_progress if some step is not pending, else pending; computed
   again on the same steps it gives the same status. *)
C20_JobStatusOfStepStatuses ==
  [][shown' # shown =>
       /\ shown'.status =
            StatusOfStatuses({steps[s].status : s \in getStepsByJob(steps, shown'.jobId)})
       /\ shown.renders >= 1 => shown'.status = shown.status]_vars

(* the status of a job with a step that is not pending and a step that is
   not approved, none awaiting review, has been computed twice *)
C20_Witness ==
  /\ shown.renders = 2
  /\ shown.status = "in_progress"
  /\ \E s, t \in getStepsByJob(steps, shown.jobId) :
       steps[s].status = "approved" /\ steps[t].status = "pending"

(* C21: submitReview by the job's manager on an upload that is not the most
   recent upload of its step fails with InvalidState, creates no Review row
   and changes no step or job status. The step is awaiting_review and each
   of its older uploads has been rejected with feedback: the review cycle
   ran as it should up to this request. *)
C21_ReviewOnlyLatestUpload ==
  [][\A u \in Users, body \in ReviewBodies :
       (/\ last'.op = "submitReview"
        /\ body.uploadId \in DOMAIN uploads
        /\ StepOf(body.uploadId) \in DOMAIN steps
        /\ body.uploadId # latestUpload(uploads, StepOf(body.uploadId))
        /\ steps[StepOf(body.uploadId)].status = "awaiting_review"
        /\ \A p \in getUploadsByStep(uploads, StepOf(body.uploadId)) :
             p # latestUpload(uploads, StepOf(body.uploadId))
               => getReviewsByUpload(reviews, p) # {}
        /\ \A r \in ReviewsOfStep(uploads, reviews, StepOf(body.uploadId)) :
             reviews[r].status = "rejected" /\ reviews[r].feedback # ""
        /\ IsJobManager(u, StepOf(body.uploadId))
        /\ validReview(body)
        /\ body.status = "rejected" => body.feedback # ""
        /\ SubmitReview(u, body))
       => (/\ ErrorKind(last'.code) = "InvalidState"
           /\ reviews' = reviews
           /\ steps' = steps
           /\ jobs' = jobs)]_vars

(* C22: submitReview by a manager naming an upload that does not exist fails
   with NotFound and creates no Review row; it does not answer success and
   leave a Review row whose upload is missing. *)
C22_ReviewOfMissingUpload ==
  [][\A u \in Users, body \in ReviewBodies :
       (/\ last'.op = "submitReview"
        /\ Role(u) = "manager"
        /\ validReview(body)
        /\ body.status = "rejected" => body.feedback # ""
        /\ body.uploadId \notin DOMAIN uploads
        /\ SubmitReview(u, body))
       => (/\ ErrorKind(last'.code) = "NotFound"
           /\ reviews' = reviews
           /\ ~(/\ ErrorKind(last'.code) = "Ok"
                /\ \E r \in DOMAIN reviews' :
                     reviews'[r].uploadId \notin DOMAIN uploads'))]_vars

(* every job with an unapproved step has exactly one active step *)
OneActiveStep ==
  \A j \in DOMAIN jobs :
    (\E s \in getStepsByJob(steps, j) : steps[s].status # "approved")
      => Cardinality(ActiveSteps(j)) = 1

(* C23: a job that has steps, not all of them approved, has exactly one step
   whose status is awaiting_upload, awaiting_review or rejected, and
   deleteStep and submitReview keep it so: from a state where every job has
   its one active step they do not lead to a job with unapproved steps and
   no active step, or with two. *)
C23_ExactlyOneActiveStep ==
  [][(last'.op \in {"deleteStep", "submitReview"} /\ OneActiveStep)
       => OneActiveStep']_vars

(* every step of job j is approved *)
AllStepsApproved(j) == \A s \in getStepsByJob(steps, j) : steps[s].status = "approved"

(* a job whose persisted status is completed has only approved steps *)
CompletedOnlyIfAllApproved ==
  \A j \in DOMAIN jobs : jobs[j].status = "completed" => AllStepsApproved(j)

(* the step is an approving review, answered with success, of an existing
   upload, and it leaves every step of the upload's job approved *)
ApprovalLeavesAllApproved ==
  /\ last'.op = "submitReview"
  /\ last'.code = 200
  /\ last'.decision = "approved"
  /\ last'.id \in DOMAIN uploads
  /\ StepOf(last'.id) \in DOMAIN steps
  /\ steps[StepOf(last'.id)].jobId \in DOMAIN jobs
  /\ \A s \in getStepsByJob(steps', steps[StepOf(last'.id)].jobId) :
       steps'[s].status = "approved"

(* C24: the persisted job status is completed only if every step of the job
   is approved, and an approval that leaves every step of the job approved
   leaves the persisted job status completed, after any sequence of
   createJob, submitUpload, submitReview, deleteStep and deleteJob. *)
C24_CompletedIffAllApproved ==
  [][/\ CompletedOnlyIfAllApproved'
     /\ ApprovalLeavesAllApproved
          => jobs'[steps[StepOf(last'.id)].jobId].status = "completed"]_vars

(* C25: deleteJob and deleteStep delete reviews, then uploads, then steps,
   then the job: in every state of a delete in flight no Review row names an
   upload the delete has removed, no Upload row names a removed step and no
   Step row names a removed job; and when deleteStep has returned, exactly
   the step, its uploads and their reviews are gone. *)
C25_DeleteOrder ==
  del.pc # "idle" =>
    /\ \A r \in DOMAIN reviews :
         reviews[r].uploadId \in DOMAIN del.before.uploads
           => reviews[r].uploadId \in DOMAIN uploads
    /\ \A p \in DOMAIN uploads : uploads[p].stepId \in DOMAIN steps
    /\ \A s \in DOMAIN steps : steps[s].jobId \in DOMAIN jobs
    /\ (del.pc = "done" /\ del.op = "deleteStep")
         => Tables = deleteStep(del.before, del.id)

(* a deleteJob has removed the reviews and uploads of a job of two steps and
   is about to remove the steps; a deleteStep has returned *)
C25_Witness ==
  \/ /\ del.pc = "deleteSteps"
     /\ del.op = "deleteJob"
     /\ Cardinality(getStepsByJob(steps, del.id)) >= 2
     /\ \E r \in DOMAIN del.before.reviews :
          /\ del.before.reviews[r].uploadId \in DOMAIN del.before.uploads
          /\ r \notin DOMAIN reviews
  \/ /\ del.pc = "done"
     /\ del.op = "deleteStep"
     /\ \E r \in DOMAIN del.before.reviews : r \notin DOMAIN reviews
     /\ DOMAIN reviews # {}

(* C26: the order values of a job's steps are positive and pairwise distinct
   in every state, and no request adds a step to a job that already exists:
   the steps of a job are those createJob gave it, or fewer. *)
C26_StepsFixedAtCreation ==
  [][/\ \A j \in DOMAIN jobs' :
          \A s, t \in getStepsByJob(steps', j) :
            /\ steps'[s].order > 0
            /\ s # t => steps'[s].order # steps'[t].order
     /\ \A j \in DOMAIN jobs :
          getStepsByJob(steps', j) \subseteq getStepsByJob(steps, j)]_vars

(* the rejecting reviews of the uploads of a step *)
RejectionsOfStep(U, R, stepId) ==
  {r \in ReviewsOfStep(U, R, stepId) : R[r].status = "rejected"}

(* the uploads of every step are its rejections, plus one when the step is
   awaiting_review or approved *)
UploadsCountRejections ==
  \A s \in DOMAIN steps :
    Cardinality(getUploadsByStep(uploads, s))
      = Cardinality(RejectionsOfStep(uploads, reviews, s))
          + (IF steps[s].status \in {"awaiting_review", "approved"} THEN 1 ELSE 0)

(* C27: the uploads of a step are an append-only history with one upload per
   rejection cycle: in every state a step has as many Upload rows as it has
   rejecting reviews, plus one when it is awaiting_review or approved, and
   no request changes an Upload row that exists. *)
C27_UploadHistory ==
  [][/\ UploadsCountRejections'
     /\ \A p \in DOMAIN uploads \cap DOMAIN uploads' : uploads'[p] = uploads[p]]_vars

(* request i is an approving review between two of its awaits, of the one
   upload of its job, and the other request has not run yet: the tables
   differ from those before the request by its own writes only. A getJob or
   submitUpload served at this moment reads the tables of this state. *)
ApprovalInFlight(i) ==
  /\ calls[i].pc \notin {"idle", "start", "done"}
  /\ calls[i].body.status = "approved"
  /\ \A k \in Slots \ {i} : calls[k].pc = "start"
  /\ calls[i].body.uploadId \in DOMAIN uploads
  /\ StepOf(calls[i].body.uploadId) \in DOMAIN steps
  /\ \A p \in DOMAIN uploads :
       steps[StepOf(p)].jobId = steps[StepOf(calls[i].body.uploadId)].jobId
         => p = calls[i].body.uploadId

(* C28: an approving submitReview is atomic for a concurrent reader: while it
   is in flight no state shows its Review row with the step still
   awaiting_review, and none shows the step approved with neither a later
   step activated nor the job completed. *)
C28_ApprovalAtomicForReaders ==
  \A i \in Slots :
    ApprovalInFlight(i) =>
      LET p == calls[i].body.uploadId
          st == StepOf(p)
          j == steps[st].jobId
      IN /\ ~(getReviewsByUpload(reviews, p) # {} /\ steps[st].status = "awaiting_review")
         /\ ~(/\ steps[st].status = "approved"
              /\ jobs[j].status # "completed"
              /\ ~\E t \in getStepsByJob(steps, j) :
                     steps[t].order > steps[st].order /\ steps[t].status = "awaiting_upload")

(* C29: a step that is awaiting_review has an upload, and its most recent
   upload has no review; the most recent upload of a step that is approved
   has exactly one review, an approving one. *)
C29_LatestUploadMatchesStatus ==
  \A s \in DOMAIN steps :
    /\ steps[s].status = "awaiting_review" =>
         /\ getUploadsByStep(uploads, s) # {}
         /\ getReviewsByUpload(reviews, latestUpload(uploads, s)) = {}
    /\ steps[s].status = "approved" =>
         /\ getUploadsByStep(uploads, s) # {}
         /\ Cardinality(getReviewsByUpload(reviews, latestUpload(uploads, s))) = 1
         /\ \A r \in getReviewsByUpload(reviews, latestUpload(uploads, s)) :
              reviews[r].status = "approved"

(* every step of every job is approved and the job is persisted as completed *)
JobDone ==
  /\ jobs # Empty
  /\ \A j \in DOMAIN jobs : jobs[j].status = "completed" /\ AllStepsApproved(j)

(* C30: progress: when the worker uploads whenever a step is awaiting_upload
   and the manager approves whenever a step is awaiting_review, with finitely
   many rejections and no deletes, a created job of N steps ends with every
   step approved and the job completed; until then an upload or an approval
   is always possible. *)
C30_Progress ==
  /\ []((jobs # Empty /\ ~JobDone) => (ENABLED WorkerUploads \/ ENABLED ManagerApproves))
  /\ (jobs # Empty) ~> JobDone

(* a job of MaxSteps steps is done after MaxRejections rejections *)
C30_Witness ==
  /\ JobDone
  /\ Cardinality(DOMAIN steps) = MaxSteps
  /\ Cardinality(Rejections) = MaxRejections

====
